---- MODULE Spec2Model ----
(***************************************************************************)
(* Agent of Sats: the append-only performance log (store/performance_log.py)*)
(* as it is driven by the MCP server's lifespan and by the demo script, the *)
(* tool handlers of the server that write to it (mcp_server/server.py) over *)
(* the exchange client, and LifiClient.poll_status.                         *)
(*                                                                          *)
(* The SQLite file is modelled by the committed rows of the events table    *)
(* and the committed AUTOINCREMENT counter; the aiosqlite connection by its *)
(* open transaction (rows inserted but not yet committed).  Every coroutine *)
(* that calls into the log is a caller; callers interleave at the awaits.   *)
(*                                                                          *)
(* Amounts are fixed-point integers, AmountScale units per 0.0001 USD, so   *)
(* that round(x, 4) is a real rounding.  Timestamps are whole seconds.      *)
(***************************************************************************)
EXTENDS Integers, Sequences, FiniteSets, TLC

\* ---------------------------------------------------------------- bounds

NumCallers == 2        \* coroutines calling into the log concurrently
MaxAppends == 3        \* INSERTs executed over the whole run
MaxLog == 3            \* INSERTs executed in the replay specification
MaxInstances == 2      \* PerformanceLog objects constructed (process starts)
MaxTicks == 1          \* times the wall clock advances
MaxReopens == 1        \* open() calls on a log that is open already
MaxPolls == 3          \* largest max_polls passed to poll_status

Callers == 1..NumCallers

\* ---------------------------------------------------- program constants

EVENT_TRADE_OPEN == "trade_open"
EVENT_TRADE_CLOSE == "trade_close"
EVENT_PNL_SNAPSHOT == "pnl_snapshot"
EVENT_STRATEGY_DECISION == "strategy_decision"
EventErrorAsTradeOpen == "trade_open"
EVENT_ERROR == "error"

SecondsPerHour == 3600
Window24h == 24
Window7d == 168

\* round(x, 4): model units per 0.0001 USD (one decimal digit below the rounding)
AmountScale == 10

\* the wall clock at the first start, and the step by which it advances
Epoch == 48 * SecondsPerHour
TickSeconds == 24 * SecondsPerHour

\* ------------------------------------------------------------- documents
\* A value that json.dumps accepts is tagged with its JSON type.  A document
\* (a Python dict with string keys) is a sequence of <<key, value>> pairs with
\* distinct keys.  An optional argument is a sequence of length 0 (absent /
\* None) or 1.

None == <<>>
Some(x) == <<x>>

Num(x) == <<"number", x>>
Str(s) == <<"string", s>>
Null == <<"null">>
Obj(doc) == <<"object", doc>>
Arr(items) == <<"array", items>>
Bool(b) == <<"boolean", b>>

DictGet(doc, key, default) ==
    IF \E i \in 1..Len(doc) : doc[i][1] = key
    THEN doc[CHOOSE i \in 1..Len(doc) : doc[i][1] = key][2]
    ELSE default

\* doc[key] = value
DictSet(doc, key, value) ==
    IF \E i \in 1..Len(doc) : doc[i][1] = key
    THEN [i \in 1..Len(doc) |-> IF doc[i][1] = key THEN <<key, value>> ELSE doc[i]]
    ELSE Append(doc, <<key, value>>)

\* json.dumps: the text of a value; an object's members in insertion order
RECURSIVE JsonDumps(_)
JsonDumps(v) ==
    CASE v[1] = "object" ->
            [json |-> "object",
             members |-> [i \in 1..Len(v[2]) |->
                             [name |-> v[2][i][1], value |-> JsonDumps(v[2][i][2])]]]
      [] v[1] = "array" ->
            [json |-> "array", items |-> [i \in 1..Len(v[2]) |-> JsonDumps(v[2][i])]]
      [] v[1] = "null" -> [json |-> "null"]
      [] OTHER -> [json |-> v[1], literal |-> v[2]]

\* json.loads
RECURSIVE JsonLoads(_)
JsonLoads(text) ==
    CASE text.json = "object" ->
            Obj([i \in 1..Len(text.members) |->
                    <<text.members[i].name, JsonLoads(text.members[i].value)>>])
      [] text.json = "array" ->
            Arr([i \in 1..Len(text.items) |-> JsonLoads(text.items[i])])
      [] text.json = "null" -> Null
      [] text.json = "string" -> Str(text.literal)
      [] text.json = "boolean" -> Bool(text.literal)
      [] OTHER -> Num(text.literal)

\* event.get("ts", time.time()) / event.get("payload", {})
OptGet(opt, default) == IF opt = None THEN default ELSE opt[1]

\* datetime.fromtimestamp(ts, tz=utc).isoformat(): day and second of the day
IsoFormat(ts) ==
    [day |-> ts \div (24 * SecondsPerHour), sec |-> ts % (24 * SecondsPerHour),
     tz |-> "+00:00"]

RowToEventPayloadDropped(row) ==
    [seq |-> row.seq, ts |-> row.ts, type |-> row.type,
     payload |-> Obj(<<>>), iso |-> IsoFormat(row.ts)]

\* _row_to_event
RowToEvent(row) ==
    [seq |-> row.seq, ts |-> row.ts, type |-> row.type,
     payload |-> JsonLoads(row.payload), iso |-> IsoFormat(row.ts)]

\* ------------------------------------------------------------------ state

VARIABLES
    events,            \* committed rows of the events table, in rowid order;
                       \* each row also carries the number of the call that
                       \* inserted it (history, not a column)
    sqlite_sequence,   \* committed AUTOINCREMENT counter of the table
    table,             \* the events table exists in the file
    db,                \* self._db: "none" or "open" (a connection is held)
    txn,               \* rows inserted in the connection's open transaction
    instance,          \* number of PerformanceLog objects constructed so far
    entry,             \* the entry point whose lifespan is running: "none",
                       \* "server" or "demo"
    now,               \* time.time()
    pc,                \* per caller: "idle" or "inserted" (between the awaits)
    call,              \* per caller: locals of its append_event call
    obs,               \* the read that returned or the call that raised
                       \* before writing in this step, or NoRead
    returned,          \* history: the append_event calls that returned
    raised,            \* history: the append_event calls that raised
    inserts,           \* history: number of INSERTs executed
    tool,              \* per caller: the tool handler it runs or ran last
    orphans,           \* the open transactions of the connections that open()
                       \* replaced in self._db without closing them
    poll               \* the LifiClient.poll_status call that runs or ran last

vars == <<events, sqlite_sequence, table, db, txn, instance, entry, now,
          pc, call, obs, returned, raised, inserts, tool, orphans, poll>>

NoRead == [op |-> "none"]
NoCall == [self |-> 0]
NoTool == [name |-> "none", status |-> "none"]
NoPoll == [status |-> "none"]

\* ------------------------------------------------------- SQLite semantics

Max(a, b) == IF a >= b THEN a ELSE b
Min(a, b) == IF a <= b THEN a ELSE b

\* what the connection sees: committed rows and its own uncommitted ones
View == events \o txn

MaxRowid(rows) ==
    IF rows = <<>> THEN 0
    ELSE CHOOSE m \in {rows[i].seq : i \in 1..Len(rows)} :
            \A i \in 1..Len(rows) : rows[i].seq <= m

\* the connection's view of the sqlite_sequence table
TxnSequence == Max(sqlite_sequence, MaxRowid(txn))

NextRowidFromCommitted == MaxRowid(events) + 1

\* INTEGER PRIMARY KEY AUTOINCREMENT: one more than the largest rowid ever used
NextRowid == Max(TxnSequence, MaxRowid(View)) + 1

RECURSIVE OrderBySeqDesc(_)
OrderBySeqDesc(rows) ==
    IF rows = <<>> THEN <<>>
    ELSE LET m == CHOOSE i \in 1..Len(rows) :
                     \A j \in 1..Len(rows) : rows[j].seq <= rows[i].seq
             rest == [k \in 1..(Len(rows) - 1) |->
                         IF k < m THEN rows[k] ELSE rows[k + 1]]
         IN  <<rows[m]>> \o OrderBySeqDesc(rest)

Reverse(s) == [i \in 1..Len(s) |-> s[Len(s) + 1 - i]]

OrderBySeqAsc(rows) == Reverse(OrderBySeqDesc(rows))

\* LIMIT n: a negative n is no limit
Limit(rows, n) == IF n < 0 THEN rows ELSE SubSeq(rows, 1, Min(n, Len(rows)))

WhereType(rows, t) == SelectSeq(rows, LAMBDA r : r.type = t)
WhereTsGe(rows, t) == SelectSeq(rows, LAMBDA r : r.ts >= t)

MapRows(rows) == [i \in 1..Len(rows) |-> RowToEvent(rows[i])]

\* ------------------------------------------------------------ the reads
\* Each is the query of the method applied to the rows the connection sees.

\* iter_events(limit, event_type)
iter_events(rows, limit, event_type) ==
    LET filtered == IF event_type # None /\ event_type[1] # ""
                    THEN WhereType(rows, event_type[1]) ELSE rows
        ordered  == OrderBySeqDesc(filtered)
        capped   == IF limit # None /\ limit[1] # 0
                    THEN Limit(ordered, limit[1]) ELSE ordered
    IN  MapRows(capped)

GetLatestSnapshotAnyType(rows) ==
    LET found == Limit(OrderBySeqDesc(rows), 1)
    IN  IF found = <<>> THEN None ELSE Some(RowToEvent(found[1]))

\* get_latest_snapshot(): None or Some(event)
get_latest_snapshot(rows) ==
    LET found == Limit(OrderBySeqDesc(WhereType(rows, EVENT_PNL_SNAPSHOT)), 1)
    IN  IF found = <<>> THEN None ELSE Some(RowToEvent(found[1]))

GetEventsSinceStrict(rows, since_ts) ==
    MapRows(OrderBySeqAsc(SelectSeq(rows, LAMBDA r : r.ts > since_ts)))

RECURSIVE OrderByTsAsc(_)
OrderByTsAsc(rows) ==
    IF rows = <<>> THEN <<>>
    ELSE LET m == CHOOSE i \in 1..Len(rows) :
                     \A j \in 1..Len(rows) :
                         \/ rows[i].ts < rows[j].ts
                         \/ rows[i].ts = rows[j].ts /\ rows[i].seq <= rows[j].seq
             rest == [k \in 1..(Len(rows) - 1) |->
                         IF k < m THEN rows[k] ELSE rows[k + 1]]
         IN  <<rows[m]>> \o OrderByTsAsc(rest)

GetEventsSinceByTimestamp(rows, since_ts) ==
    MapRows(OrderByTsAsc(WhereTsGe(rows, since_ts)))

\* get_events_since(since_ts)
get_events_since(rows, since_ts) ==
    MapRows(OrderBySeqAsc(WhereTsGe(rows, since_ts)))

\* round(x, 4) on an amount: to the nearest multiple of AmountScale, ties to even
Round4(x) ==
    LET q == x \div AmountScale
        r == x % AmountScale
    IN  IF 2 * r < AmountScale THEN q * AmountScale
        ELSE IF 2 * r > AmountScale THEN (q + 1) * AmountScale
        ELSE IF q % 2 = 0 THEN q * AmountScale ELSE (q + 1) * AmountScale

RealizedPnlDefaultOneUsd(ev) ==
    DictGet(ev.payload[2], "realized_pnl", Num(10000 * AmountScale))[2]

\* ev["payload"].get("realized_pnl", 0.0), as an operand of the float sums
RealizedPnl(ev) == DictGet(ev.payload[2], "realized_pnl", Num(0))[2]

RECURSIVE ReplayPeakNeverRaised(_, _)
ReplayPeakNeverRaised(evs, n) ==
    IF n = 0 THEN [cumulative_pnl |-> 0, peak |-> 0, max_drawdown |-> 0]
    ELSE LET prev == ReplayPeakNeverRaised(evs, n - 1)
             cum  == prev.cumulative_pnl + RealizedPnl(evs[n])
             dd   == prev.peak - cum
         IN  [cumulative_pnl |-> cum, peak |-> prev.peak,
              max_drawdown |-> IF dd > prev.max_drawdown THEN dd
                               ELSE prev.max_drawdown]

\* the replay loop of compute_pnl_summary over evs[1..n]
RECURSIVE Replay(_, _)
Replay(evs, n) ==
    IF n = 0 THEN [cumulative_pnl |-> 0, peak |-> 0, max_drawdown |-> 0]
    ELSE LET prev == Replay(evs, n - 1)
             cum  == prev.cumulative_pnl + RealizedPnl(evs[n])
             peak == IF cum > prev.peak THEN cum ELSE prev.peak
             dd   == peak - cum
         IN  [cumulative_pnl |-> cum, peak |-> peak,
              max_drawdown |-> IF dd > prev.max_drawdown THEN dd
                               ELSE prev.max_drawdown]

RECURSIVE SumPnl(_, _)
SumPnl(evs, n) ==
    IF n = 0 THEN 0 ELSE SumPnl(evs, n - 1) + RealizedPnl(evs[n])

ComputePnlSummaryWindowedReplay(rows, window_hours, t) ==
    LET all_closes    == Reverse(iter_events(rows, None, Some(EVENT_TRADE_CLOSE)))
        cutoff        == t - window_hours * SecondsPerHour
        window_closes == SelectSeq(all_closes, LAMBDA e : e.ts >= cutoff)
        replay        == Replay(window_closes, Len(window_closes))
    IN  [cumulative_pnl_usd      |-> Round4(replay.cumulative_pnl),
         realized_pnl_window_usd |-> Round4(SumPnl(window_closes, Len(window_closes))),
         window_hours            |-> window_hours,
         max_drawdown_usd        |-> Round4(replay.max_drawdown),
         total_closed_trades     |-> Len(all_closes)]

ComputePnlSummaryStrictCutoff(rows, window_hours, t) ==
    LET all_closes    == Reverse(iter_events(rows, None, Some(EVENT_TRADE_CLOSE)))
        replay        == Replay(all_closes, Len(all_closes))
        cutoff        == t - window_hours * SecondsPerHour
        window_closes == SelectSeq(all_closes, LAMBDA e : e.ts > cutoff)
    IN  [cumulative_pnl_usd      |-> Round4(replay.cumulative_pnl),
         realized_pnl_window_usd |-> Round4(SumPnl(window_closes, Len(window_closes))),
         window_hours            |-> window_hours,
         max_drawdown_usd        |-> Round4(replay.max_drawdown),
         total_closed_trades     |-> Len(all_closes)]

\* compute_pnl_summary(window_hours) called at time t
compute_pnl_summary(rows, window_hours, t) ==
    LET all_closes    == Reverse(iter_events(rows, None, Some(EVENT_TRADE_CLOSE)))
        replay        == Replay(all_closes, Len(all_closes))
        cutoff        == t - window_hours * SecondsPerHour
        window_closes == SelectSeq(all_closes, LAMBDA e : e.ts >= cutoff)
    IN  [cumulative_pnl_usd      |-> Round4(replay.cumulative_pnl),
         realized_pnl_window_usd |-> Round4(SumPnl(window_closes, Len(window_closes))),
         window_hours            |-> window_hours,
         max_drawdown_usd        |-> Round4(replay.max_drawdown),
         total_closed_trades     |-> Len(all_closes)]

\* the first close on which the summary's arithmetic fails, if any: .get on a
\* payload that is not a dict (AttributeError), `+=` of a float and a value
\* that is not a number (TypeError)
compute_pnl_summary_error(rows) ==
    LET all_closes == Reverse(iter_events(rows, None, Some(EVENT_TRADE_CLOSE)))
        failing    == SelectSeq(all_closes, LAMBDA e :
                          \/ e.payload[1] # "object"
                          \/ DictGet(e.payload[2], "realized_pnl", Num(0))[1] # "number")
    IN  IF failing = <<>> THEN None
        ELSE IF failing[1].payload[1] # "object" THEN Some("AttributeError")
        ELSE Some("TypeError")

\* ------------------------------------------------------------ the inputs

\* 1 USD in model units
Usd == 10000 * AmountScale

Doc(key, value) == << <<key, value>> >>
Event(type, ts, payload) == [type |-> type, ts |-> ts, payload |-> payload]

\* the events the concurrent callers append: a close of 42.5 USD stamped by
\* the log and a snapshot without payload with the producer's own (older)
\* timestamp
CallerEvents ==
    { Event(EVENT_TRADE_CLOSE, None, Some(Obj(Doc("realized_pnl", Num((425 * Usd) \div 10))))),
      Event(EVENT_PNL_SNAPSHOT, Some(SecondsPerHour), None) }

\* what any producer may pass to append_event: closes of +100 and -150 USD
\* stamped by the log, a close of 0.00004 USD and an open with timestamps of
\* the producer's own (an old one, and the time of the first start), a snapshot
ProducerEvents ==
    { Event(EVENT_TRADE_CLOSE, None, Some(Obj(Doc("realized_pnl", Num(100 * Usd))))),
      Event(EVENT_TRADE_CLOSE, None, Some(Obj(Doc("realized_pnl", Num(-150 * Usd))))),
      Event(EVENT_TRADE_CLOSE, Some(SecondsPerHour), Some(Obj(Doc("realized_pnl", Num(4))))),
      Event(EVENT_PNL_SNAPSHOT, None, Some(Obj(Doc("open_positions", Num(0))))),
      Event(EVENT_TRADE_OPEN, Some(Epoch), None) }

\* the closes the analytics replay: +100 USD with a timestamp of the
\* producer's own, 12 hours before the first start, -150 and +50 USD and
\* 0.00004 USD stamped by the log, a close without realized_pnl, and an open
\* that carries a realized_pnl
SummaryEvents ==
    { Event(EVENT_TRADE_CLOSE, Some(Epoch - 12 * SecondsPerHour),
            Some(Obj(Doc("realized_pnl", Num(100 * Usd))))),
      Event(EVENT_TRADE_CLOSE, None, Some(Obj(Doc("realized_pnl", Num(-150 * Usd))))),
      Event(EVENT_TRADE_CLOSE, None, Some(Obj(Doc("realized_pnl", Num(50 * Usd))))),
      Event(EVENT_TRADE_CLOSE, None, Some(Obj(Doc("realized_pnl", Num(4))))),
      Event(EVENT_TRADE_CLOSE, None, Some(Obj(Doc("positions_closed", Num(1))))),
      Event(EVENT_TRADE_OPEN, None, Some(Obj(Doc("realized_pnl", Num(7 * Usd))))) }

\* events of any shape a caller may hand to append_event: a type outside the
\* five, a close without realized_pnl, closes whose realized_pnl is a string,
\* null or a nested document, a close whose payload is a list, an event
\* without type
InputEvents ==
    { Event("liquidation", None, Some(Obj(Doc("coin", Str("BTC"))))),
      Event(EVENT_TRADE_CLOSE, None, Some(Obj(Doc("positions_closed", Num(1))))),
      Event(EVENT_TRADE_CLOSE, None, Some(Obj(Doc("realized_pnl", Str("12.5"))))),
      Event(EVENT_TRADE_CLOSE, None, Some(Obj(Doc("realized_pnl", Null)))),
      Event(EVENT_TRADE_CLOSE, None,
            Some(Obj(Doc("realized_pnl", Obj(Doc("usd", Num(5 * Usd))))))),
      Event(EVENT_TRADE_CLOSE, None, Some(Arr(<<Num(5 * Usd)>>))),
      [ts |-> None, payload |-> Some(Obj(Doc("realized_pnl", Num(5 * Usd))))] }

ReadLimits == {None, Some(0), Some(2)}
ReadTypes == {None, Some(EVENT_TRADE_CLOSE)}
ReadSince == {Epoch}
ReadWindows == {Window24h, Window7d}

\* any window_hours a caller may pass
AnyWindows == {-1, 0, Window24h, Window7d}

\* ------------------------------------------------------------ lifecycle

Init ==
    /\ events = <<>>
    /\ sqlite_sequence = 0
    /\ table = FALSE
    /\ db = "none"
    /\ txn = <<>>
    /\ instance = 0
    /\ entry = "none"
    /\ now = Epoch
    /\ pc = [c \in Callers |-> "idle"]
    /\ call = [c \in Callers |-> NoCall]
    /\ obs = NoRead
    /\ returned = {}
    /\ raised = {}
    /\ inserts = 0
    /\ tool = [c \in Callers |-> NoTool]
    /\ orphans = <<>>
    /\ poll = NoPoll

\* app_lifespan up to the yield: PerformanceLog() and open()
Start(e) ==
    /\ entry = "none"
    /\ instance < MaxInstances
    /\ entry' = e
    /\ instance' = instance + 1
    /\ db' = "open"
    /\ table' = TRUE
    /\ txn' = <<>>
    /\ obs' = NoRead
    /\ orphans' = <<>>
    /\ UNCHANGED <<poll, events, sqlite_sequence, now, pc, call, returned, raised,
                   inserts, tool>>

StartServer == Start("server")

\* app_lifespan when HyperliquidPerpsClient(), MoltbookClient() or LifiClient()
\* raises: open() has returned, the exception leaves the lifespan before its
\* try block is entered, and nothing is yielded
StartupFails ==
    /\ entry = "none"
    /\ instance < MaxInstances
    /\ instance' = instance + 1
    /\ db' = "open"
    /\ table' = TRUE
    /\ txn' = <<>>
    /\ obs' = NoRead
    /\ UNCHANGED <<orphans, poll, events, sqlite_sequence, entry, now, pc, call, returned,
                   raised, inserts, tool>>
StartDemo == Start("demo")

\* open() on a PerformanceLog that is open: self._db is replaced by a new
\* connection, the table exists already; the connection held before is not
\* closed and keeps its open transaction
OpenAgain ==
    /\ entry # "none"
    /\ db = "open"
    /\ Len(orphans) < MaxReopens
    /\ orphans' = Append(orphans, txn)
    /\ txn' = <<>>
    /\ db' = "open"
    /\ table' = TRUE
    /\ obs' = NoRead
    /\ UNCHANGED <<poll, events, sqlite_sequence, instance, entry, now, pc, call,
                   returned, raised, inserts, tool>>

\* app_lifespan after the yield, the body having returned or raised: the
\* finally block calls close(); the connection's open transaction is rolled
\* back.  The demo's process goes on to its cleanup, the server's ends.
Stop ==
    /\ entry # "none"
    /\ db = "open"
    /\ db' = "none"
    /\ txn' = <<>>
    /\ entry' = IF entry = "demo" THEN "demo" ELSE "none"
    /\ obs' = NoRead
    /\ UNCHANGED <<orphans, poll, events, sqlite_sequence, table, instance, now, pc, call,
                   returned, raised, inserts, tool>>

\* the process is killed: its connection and its coroutines are gone
Crash ==
    /\ entry # "none"
    /\ db' = "none"
    /\ txn' = <<>>
    /\ entry' = "none"
    /\ pc' = [c \in Callers |-> "idle"]
    /\ call' = [c \in Callers |-> NoCall]
    /\ tool' = [c \in Callers |-> IF tool[c].status = "running" THEN NoTool ELSE tool[c]]
    /\ obs' = NoRead
    /\ orphans' = <<>>
    /\ UNCHANGED <<poll, events, sqlite_sequence, table, instance, now, returned,
                   raised, inserts>>

\* demo.py __main__: after run_demo(), os.remove(db_path) if it exists
DemoCleanup ==
    /\ entry = "demo"
    /\ db = "none"
    /\ entry' = "none"
    /\ IF table
       THEN events' = <<>> /\ sqlite_sequence' = 0 /\ table' = FALSE
       ELSE UNCHANGED <<events, sqlite_sequence, table>>
    /\ obs' = NoRead
    /\ UNCHANGED <<orphans, poll, db, txn, instance, now, pc, call, returned, raised, inserts,
                   tool>>

\* time passes
Tick ==
    /\ now < Epoch + MaxTicks * TickSeconds
    /\ now' = now + TickSeconds
    /\ obs' = NoRead
    /\ UNCHANGED <<orphans, poll, events, sqlite_sequence, table, db, txn, instance, entry,
                   pc, call, returned, raised, inserts, tool>>

\* ---------------------------------------------------------- append_event

\* history: the largest sequence number a call has returned so far
MaxReturned ==
    IF returned = {} THEN 0
    ELSE CHOOSE m \in {r.seq : r \in returned} : \A r \in returned : r.seq <= m

LastRowidOfConnection(c) == MaxRowid(View)

\* cursor.lastrowid: the rowid of the INSERT this cursor executed
LastRowid(c) == call[c].lastrowid

\* callers are interchangeable: a new call runs as the first idle one
FreeSlot(c) == pc[c] = "idle" /\ \A d \in 1..(c - 1) : pc[d] # "idle"

CommitNothing == events

CommitLastRowOnly == events \o SubSeq(txn, Len(txn), Len(txn))

\* COMMIT: every row of the connection's open transaction reaches the file
CommitRows == events \o txn

\* a connection that is not self._db holds the write lock of the file: it
\* has inserted rows and not committed them
Locked == \E k \in 1..Len(orphans) : orphans[k] # <<>>

\* append_event up to the end of `await self._db.execute(INSERT ...)`
Insert(c, event) ==
    /\ pc[c] = "idle"
    /\ entry # "none"
    /\ db = "open"
    /\ ~Locked
    /\ "type" \in DOMAIN event
    /\ LET ts      == OptGet(event.ts, now)
           etype   == event.type
           payload == JsonDumps(OptGet(event.payload, Obj(<<>>)))
           rowid   == NextRowid
       IN  /\ txn' = Append(txn, [seq |-> rowid, ts |-> ts, type |-> etype,
                                  payload |-> payload, no |-> inserts + 1])
           /\ call' = [call EXCEPT ![c] =
                          [self |-> instance, lastrowid |-> rowid, event |-> event,
                           ts |-> ts, no |-> inserts + 1, floor |-> MaxReturned]]
    /\ pc' = [pc EXCEPT ![c] = "inserted"]
    /\ inserts' = inserts + 1
    /\ obs' = NoRead
    /\ UNCHANGED <<orphans, poll, events, sqlite_sequence, table, db, instance, entry, now,
                   returned, raised>>

\* append_event on an event without type: event["type"] raises KeyError
AppendKeyError(c, event) ==
    /\ pc[c] = "idle"
    /\ entry # "none"
    /\ db = "open"
    /\ "type" \notin DOMAIN event
    /\ obs' = [op |-> "raise", of |-> "append_event", error |-> "KeyError"]
    /\ UNCHANGED <<orphans, poll, events, sqlite_sequence, table, db, txn, instance, entry, now,
                   pc, call, returned, raised, inserts, tool>>

\* append_event while another connection holds the write lock: the INSERT
\* raises "database is locked" after the busy timeout
AppendLocked(c, event) ==
    /\ pc[c] = "idle"
    /\ entry # "none"
    /\ db = "open"
    /\ "type" \in DOMAIN event
    /\ Locked
    /\ obs' = [op |-> "raise", of |-> "append_event", error |-> "OperationalError"]
    /\ UNCHANGED <<orphans, poll, events, sqlite_sequence, table, db, txn,
                   instance, entry, now, pc, call, returned, raised, inserts, tool>>

\* `await self._db.commit()` and the return of cursor.lastrowid; on a log that
\* was closed meanwhile self._db is None and the call raises
Commit(c) ==
    /\ pc[c] = "inserted"
    /\ IF entry # "none" /\ db = "open" /\ call[c].self = instance
       THEN /\ events' = CommitRows
            /\ sqlite_sequence' = TxnSequence
            /\ txn' = <<>>
            /\ returned' = returned \cup
                              {[seq |-> LastRowid(c), event |-> call[c].event,
                                ts |-> call[c].ts, self |-> call[c].self,
                                no |-> call[c].no, floor |-> call[c].floor]}
            /\ UNCHANGED raised
       ELSE /\ raised' = raised \cup
                              {[rowid |-> call[c].lastrowid,
                                self |-> call[c].self, no |-> call[c].no]}
            /\ UNCHANGED <<events, sqlite_sequence, txn, returned>>
    /\ pc' = [pc EXCEPT ![c] = "idle"]
    /\ call' = [call EXCEPT ![c] = NoCall]
    /\ obs' = NoRead
    /\ UNCHANGED <<orphans, poll, table, db, instance, entry, now, inserts>>

\* `await self._db.commit()` raises when there are rows to write (the disk is
\* full, the file is locked by another process): the call raises; SQLite has
\* either rolled the open transaction back or left it open, depending on the
\* error
CommitFails(c) ==
    /\ pc[c] = "inserted"
    /\ entry # "none"
    /\ db = "open"
    /\ call[c].self = instance
    /\ txn # <<>>
    /\ txn' \in {txn, <<>>}
    /\ raised' = raised \cup
                     {[rowid |-> call[c].lastrowid,
                       self |-> call[c].self, no |-> call[c].no]}
    /\ pc' = [pc EXCEPT ![c] = "idle"]
    /\ call' = [call EXCEPT ![c] = NoCall]
    /\ obs' = NoRead
    /\ UNCHANGED <<orphans, poll, events, sqlite_sequence, table, db, instance, entry, now,
                   returned, inserts>>

\* append_event called by a producer that is not one of the tool handlers
\* modelled below
AppendExecute(c, event) == Insert(c, event) /\ UNCHANGED tool
AppendCommit(c) == tool[c].status # "running" /\ Commit(c) /\ UNCHANGED tool
AppendCommitFails(c) == tool[c].status # "running" /\ CommitFails(c) /\ UNCHANGED tool

\* ------------------------------------------------------------------ reads

ObserveConsumingSequence(o) ==
    /\ entry # "none"
    /\ db = "open"
    /\ obs' = o
    /\ sqlite_sequence' = sqlite_sequence + 1
    /\ UNCHANGED <<orphans, poll, events, table, db, txn, instance, entry, now,
                   pc, call, returned, raised, inserts, tool>>

Observe(o) ==
    /\ entry # "none"
    /\ db = "open"
    /\ obs' = o
    /\ UNCHANGED <<orphans, poll, events, sqlite_sequence, table, db, txn, instance, entry, now,
                   pc, call, returned, raised, inserts, tool>>

IterEvents(limit, event_type) ==
    Observe([op |-> "iter_events", limit |-> limit, event_type |-> event_type,
             result |-> iter_events(View, limit, event_type)])

GetLatestSnapshot ==
    Observe([op |-> "get_latest_snapshot", result |-> get_latest_snapshot(View)])

GetEventsSince(since_ts) ==
    Observe([op |-> "get_events_since", since_ts |-> since_ts,
             result |-> get_events_since(View, since_ts)])

ComputePnlSummary(window_hours) ==
    IF compute_pnl_summary_error(View) = None
    THEN Observe([op |-> "compute_pnl_summary", window_hours |-> window_hours,
                  result |-> compute_pnl_summary(View, window_hours, now)])
    ELSE Observe([op |-> "raise", of |-> "compute_pnl_summary",
                  error |-> compute_pnl_summary_error(View)[1]])

\* ----------------------------------------------------- the tool handlers
\* A handler runs in a caller; tool[c] holds its name, its arguments and
\* locals, the numbers of the append_event calls it has made, the number of
\* place_order calls it has made, and, once it has ended, how it ended.

\* what a handler did on the exchange: the market_close orders it sent, their
\* results, and the exception of an exchange call if one was raised
NoExchange == [close_orders |-> 0, results |-> <<>>, failure |-> None]

\* funding_8h is in millionths; funding_8h * 3 * 365 * 10_000 in hundredths of
\* a basis point
FundingAnnualBps(market) == market.funding_rate * 1095

MeetsEdgeAlways(market, is_long_basis, target_edge_bps) == TRUE

\* meets_edge
MeetsEdge(market, is_long_basis, target_edge_bps) ==
    IF is_long_basis
    THEN FundingAnnualBps(market) >= target_edge_bps * 100
    ELSE FundingAnnualBps(market) <= -(target_edge_bps * 100)

PlaceOrderFilled(symbol, is_buy, size) ==
    [raised |-> FALSE, order_id |-> "77", status |-> "filled",
     side |-> IF is_buy THEN "buy" ELSE "sell"]

\* hl_client.place_order(...): HyperliquidPerpsClient defines no place_order,
\* the attribute lookup raises
PlaceOrder(symbol, is_buy, size) ==
    [raised |-> TRUE,
     error |-> "'HyperliquidPerpsClient' object has no attribute 'place_order'"]

\* the decision document of run_basis_strategy before the branch
Decision(market, is_long_basis, target_edge_bps, max_leverage) ==
    << <<"mark_price", Num(market.mark_price)>>,
       <<"index_price", Num(market.index_price)>>,
       <<"funding_8h", Num(market.funding_rate)>>,
       <<"funding_annual_bps", Num(FundingAnnualBps(market))>>,
       <<"target_edge_bps", Num(target_edge_bps)>>,
       <<"is_long_basis", Bool(is_long_basis)>>,
       <<"max_leverage", Num(max_leverage)>> >>

\* the text of the reason, without the two figures it quotes
NoTradeReason == "Funding edge does not meet target."

NoTradeDecision(decision) ==
    DictSet(DictSet(decision, "action", Str("no_trade")), "reason", Str(NoTradeReason))

ErrorDecision(decision, exc) ==
    DictSet(DictSet(decision, "action", Str("error")), "error", Str(exc))

NotionalUsd == 10000

\* round(notional_usd / market.mark_price, 6), in millionths of a BTC; prices
\* are in whole USD
SizeBtc(mark_price) ==
    LET whole == (NotionalUsd * 1000) \div mark_price
        rest  == (NotionalUsd * 1000) % mark_price
    IN  whole * 1000 + (2 * rest * 1000 + mark_price) \div (2 * mark_price)

OrderDecision(decision, order, size_btc) ==
    DictSet(DictSet(DictSet(DictSet(DictSet(DictSet(decision,
        "action", Str("order_placed")),
        "order_id", Str(order.order_id)),
        "side", Str(order.side)),
        "size_btc", Num(size_btc)),
        "notional_usd", Num(NotionalUsd * Usd)),
        "order_status", Str(order.status))

Running(name, stage, args, locals, in_try, place_order_calls) ==
    [name |-> name, status |-> "running", stage |-> stage, args |-> args,
     locals |-> locals, in_try |-> in_try, appends |-> <<>>,
     place_order_calls |-> place_order_calls, exchange |-> NoExchange]

\* the handler calls append_event: the call up to its INSERT
ToolInsert(c, t, event) ==
    /\ Insert(c, event)
    /\ tool' = [tool EXCEPT ![c] =
                   [t EXCEPT !.appends = Append(t.appends, inserts + 1)]]

\* the handler ends: it returns result, or an exception leaves it
Ended(t, status, result) ==
    [name |-> t.name, status |-> status, args |-> t.args, appends |-> t.appends,
     place_order_calls |-> t.place_order_calls, exchange |-> t.exchange,
     result |-> result]

\* an append_event call of the handler raises: inside a try block the except
\* clause is entered, elsewhere the exception leaves the handler
AppendRaised(t) ==
    IF t.in_try
    THEN [t EXCEPT !.stage = "except", !.in_try = FALSE]
    ELSE Ended(t, "raised", None)

\* run_basis_strategy up to the INSERT of its first append_event
RunBasisStrategy(c, market, is_long_basis, target_edge_bps, max_leverage) ==
    /\ tool[c].status # "running"
    /\ LET decision == Decision(market, is_long_basis, target_edge_bps, max_leverage)
           args     == [market |-> market, is_long_basis |-> is_long_basis,
                        target_edge_bps |-> target_edge_bps]
           is_buy   == ~is_long_basis
           size_btc == SizeBtc(market.mark_price)
           order    == PlaceOrder("BTC", is_buy, size_btc)
       IN  IF ~MeetsEdge(market, is_long_basis, target_edge_bps)
           THEN ToolInsert(c,
                    Running("run_basis_strategy", "append", args,
                            NoTradeDecision(decision), FALSE, 0),
                    Event(EVENT_STRATEGY_DECISION, None,
                          Some(Obj(NoTradeDecision(decision)))))
           ELSE IF order.raised
           THEN ToolInsert(c,
                    [Running("run_basis_strategy", "append", args,
                             ErrorDecision(decision, order.error), FALSE, 1)
                        EXCEPT !.exchange.failure = Some(order.error)],
                    Event(EVENT_ERROR, None,
                          Some(Obj(ErrorDecision(decision, order.error)))))
           ELSE ToolInsert(c,
                    Running("run_basis_strategy", "append", args,
                            OrderDecision(decision, order, size_btc), TRUE, 1),
                    Event(EVENT_TRADE_OPEN, None,
                          Some(Obj(OrderDecision(decision, order, size_btc)))))

\* the except clause of run_basis_strategy, entered from its append_event:
\* the error event, up to its INSERT.  No run reaches it, place_order raising
\* before the append_event of the try block is called.
RunBasisStrategyExcept(c) ==
    /\ tool[c].status = "running"
    /\ tool[c].stage = "except"
    /\ LET decision == ErrorDecision(tool[c].locals, "OperationalError")
       IN  ToolInsert(c, [tool[c] EXCEPT !.stage = "append", !.locals = decision],
                      Event(EVENT_ERROR, None, Some(Obj(decision))))

\* run_basis_strategy when hl_client.get_btc_market_info() raises (BTC is not
\* in the universe the API returns, the API cannot be reached): the exception
\* leaves the handler
RunBasisStrategyFetchFails(c, is_long_basis, target_edge_bps) ==
    /\ tool[c].status # "running"
    /\ pc[c] = "idle"
    /\ entry # "none"
    /\ db = "open"
    /\ LET args == [is_long_basis |-> is_long_basis,
                    target_edge_bps |-> target_edge_bps]
           t    == Running("run_basis_strategy", "fetch", args, <<>>, FALSE, 0)
       IN  tool' = [tool EXCEPT ![c] =
                       Ended([t EXCEPT !.exchange.failure =
                                 Some("BTC not found in Hyperliquid universe")],
                             "raised", None)]
    /\ obs' = NoRead
    /\ UNCHANGED <<orphans, poll, events, sqlite_sequence, table, db, txn,
                   instance, entry, now, pc, call, returned, raised, inserts>>

IsDict(v) == v[1] = "object"

\* str(v) of a value of an order response
StrOf(v) ==
    CASE v[1] = "string" -> v[2]
      [] v[1] = "number" -> ToString(v[2])
      [] v[1] = "object" -> IF v[2] = <<>> THEN "{}" ELSE "{'" \o v[2][1][1] \o "': ...}"
      [] OTHER -> "None"

\* _parse_order_result; is_buy is None, Some(TRUE) or Some(FALSE)
ParseOrderResult(result, symbol, is_buy, size, order_type) ==
    LET status_data == IF IsDict(result)
                       THEN DictGet(result[2], "response", result) ELSE Obj(<<>>)
        data        == IF IsDict(status_data)
                       THEN DictGet(status_data[2], "data", Obj(<<>>)) ELSE Obj(<<>>)
        statuses    == IF IsDict(data)
                       THEN DictGet(data[2], "statuses", Arr(<<>>)) ELSE Arr(<<>>)
        first_dict  == /\ statuses[1] = "array"
                       /\ statuses[2] # <<>>
                       /\ IsDict(statuses[2][1])
        first       == statuses[2][1][2]
        filled      == DictGet(first, "filled", DictGet(first, "resting", Obj(<<>>)))
        has_error   == \E i \in 1..Len(first) : first[i][1] = "error"
        parsed      ==
            IF ~first_dict THEN [order_id |-> "", status |-> "unknown"]
            ELSE IF IsDict(filled)
            THEN [order_id |-> StrOf(DictGet(filled[2], "oid", Str(""))),
                  status |-> "unknown"]
            ELSE IF has_error
            THEN [order_id |-> StrOf(DictGet(first, "error", Str(""))),
                  status |-> "error"]
            ELSE [order_id |-> StrOf(statuses[2][1]),
                  status |-> IF \E i \in 1..Len(first) : first[i][1] = "filled"
                             THEN "filled" ELSE "submitted"]
        order_status == IF parsed.order_id # "" /\ parsed.status = "unknown"
                        THEN "submitted" ELSE parsed.status
    IN  [order_id |-> parsed.order_id, symbol |-> symbol,
         side |-> IF is_buy = Some(TRUE) THEN "buy"
                  ELSE IF is_buy = Some(FALSE) THEN "sell" ELSE "unknown",
         size |-> size, order_type |-> order_type, status |-> order_status]

\* an exchange call that raises instead of returning a response
Raises(error) == <<"raise", error>>

RelevantAnySymbol(positions, symbol) == positions

\* [p for p in positions_before if p.symbol == symbol]
Relevant(positions, symbol) == SelectSeq(positions, LAMBDA p : p.symbol = symbol)

\* sum(p.unrealized_pnl for p in relevant)
RECURSIVE SumUnrealized(_)
SumUnrealized(positions) ==
    IF positions = <<>> THEN 0
    ELSE positions[1].unrealized_pnl + SumUnrealized(Tail(positions))

Abs(x) == IF x < 0 THEN -x ELSE x

\* close_all_positions(symbol): one market_close per position of the symbol,
\* answered by responses in turn, up to the first that raises
CloseAllPositions(positions, symbol, responses) ==
    LET mine   == Relevant(positions, symbol)
        failed == {k \in 1..Len(mine) : responses[k][1] = "raise"}
        sent   == IF failed = {} THEN Len(mine)
                  ELSE CHOOSE k \in failed : \A j \in failed : k <= j
        done   == IF failed = {} THEN Len(mine) ELSE sent - 1
    IN  [close_orders |-> sent,
         results |-> [k \in 1..done |->
                         ParseOrderResult(responses[k], symbol, None,
                                          Abs(mine[k].size), "market_close")],
         failure |-> IF failed = {} THEN None ELSE Some(responses[sent][2])]

\* close_positions up to the INSERT of its append_event, or to its return
\* when there is no position of the symbol, or to the exception of a
\* market_close
ClosePositions(c, symbol, positions, responses) ==
    /\ tool[c].status # "running"
    /\ pc[c] = "idle"
    /\ entry # "none"
    /\ db = "open"
    /\ LET t == Running("close_positions", "append",
                        [symbol |-> symbol, positions |-> positions],
                        <<>>, FALSE, 0)
           relevant == Relevant(positions, symbol)
           closing  == CloseAllPositions(positions, symbol, responses)
           results  == closing.results
           total_realized == SumUnrealized(relevant)
           close_event ==
               << <<"symbol", Str(symbol)>>,
                  <<"positions_closed", Num(Len(results))>>,
                  <<"realized_pnl", Num(Round4(total_realized))>>,
                  <<"order_ids", Arr([i \in 1..Len(results) |->
                                         Str(results[i].order_id)])>> >>
           unchanged == /\ obs' = NoRead
                        /\ UNCHANGED <<orphans, poll, events, sqlite_sequence,
                                       table, db, txn, instance, entry, now, pc,
                                       call, returned, raised, inserts>>
       IN  IF relevant = <<>>
           THEN /\ tool' = [tool EXCEPT ![c] =
                               Ended(t, "returned",
                                     Some(<< <<"action", Str("no_positions")>>,
                                             <<"symbol", Str(symbol)>> >>))]
                /\ unchanged
           ELSE IF closing.failure # None
           THEN /\ tool' = [tool EXCEPT ![c] =
                               Ended([t EXCEPT !.exchange = closing], "raised", None)]
                /\ unchanged
           ELSE ToolInsert(c, [t EXCEPT
                                  !.exchange = closing,
                                  !.locals = << <<"action", Str("positions_closed")>> >>
                                             \o close_event],
                           Event(EVENT_TRADE_CLOSE, None, Some(Obj(close_event))))

\* a summary as the document json.dumps receives
SummaryDoc(summary) ==
    Obj(<< <<"cumulative_pnl_usd", Num(summary.cumulative_pnl_usd)>>,
           <<"realized_pnl_window_usd", Num(summary.realized_pnl_window_usd)>>,
           <<"window_hours", Num(summary.window_hours)>>,
           <<"max_drawdown_usd", Num(summary.max_drawdown_usd)>>,
           <<"total_closed_trades", Num(summary.total_closed_trades)>> >>)

\* get_pnl_snapshot up to the result of compute_pnl_summary(window_hours=24)
GetPnlSnapshot(c) ==
    /\ tool[c].status # "running"
    /\ pc[c] = "idle"
    /\ entry # "none"
    /\ db = "open"
    /\ LET t == Running("get_pnl_snapshot", "summary_7d", <<>>, <<>>, FALSE, 0)
       IN  tool' = [tool EXCEPT ![c] =
                       IF compute_pnl_summary_error(View) # None
                       THEN Ended(t, "raised", None)
                       ELSE [t EXCEPT !.locals =
                                << <<"pnl_24h",
                                     SummaryDoc(compute_pnl_summary(View, Window24h, now))>> >>]]
    /\ obs' = NoRead
    /\ UNCHANGED <<orphans, poll, events, sqlite_sequence, table, db, txn, instance, entry, now,
                   pc, call, returned, raised, inserts>>

\* ... to the result of compute_pnl_summary(window_hours=168); on a log that
\* was closed meanwhile the call's assert raises
GetPnlSnapshot7d(c) ==
    /\ tool[c].status = "running"
    /\ tool[c].stage = "summary_7d"
    /\ tool' = [tool EXCEPT ![c] =
                   IF entry = "none" \/ db # "open"
                      \/ compute_pnl_summary_error(View) # None
                   THEN Ended(tool[c], "raised", None)
                   ELSE [tool[c] EXCEPT
                            !.stage = "positions",
                            !.locals = DictSet(tool[c].locals, "pnl_7d",
                                SummaryDoc(compute_pnl_summary(View, Window7d, now)))]]
    /\ obs' = NoRead
    /\ UNCHANGED <<orphans, poll, events, sqlite_sequence, table, db, txn, instance, entry, now,
                   pc, call, returned, raised, inserts>>

\* ... through get_positions() to the INSERT of the pnl_snapshot event
GetPnlSnapshotAppend(c, positions) ==
    /\ tool[c].status = "running"
    /\ tool[c].stage = "positions"
    /\ LET pos_list == Arr([i \in 1..Len(positions) |->
                               Obj(<< <<"symbol", Str(positions[i].symbol)>>,
                                      <<"unrealized_pnl",
                                        Num(positions[i].unrealized_pnl)>> >>)])
           result   == << <<"open_positions", pos_list>> >> \o tool[c].locals
       IN  ToolInsert(c, [tool[c] EXCEPT !.stage = "append", !.locals = result],
                      Event(EVENT_PNL_SNAPSHOT, None, Some(Obj(result))))

\* the handler's append_event commits and returns, and the handler returns
\* its result; or the commit raises on a log closed meanwhile
ToolCommit(c) ==
    /\ tool[c].status = "running"
    /\ tool[c].stage = "append"
    /\ Commit(c)
    /\ tool' = [tool EXCEPT ![c] =
                   IF returned' # returned
                   THEN Ended(tool[c], "returned", Some(tool[c].locals))
                   ELSE AppendRaised(tool[c])]

\* the handler's append_event raises from a failing commit
ToolCommitFails(c) ==
    /\ tool[c].status = "running"
    /\ tool[c].stage = "append"
    /\ CommitFails(c)
    /\ tool' = [tool EXCEPT ![c] = AppendRaised(tool[c])]

\* ------------------------------------------------- LifiClient.poll_status
\* poll holds the arguments and locals of the call: max_polls, the number of
\* get_status calls made, the states they returned in turn (the last one is
\* the local variable state, unbound while there is none), and how the call
\* ended.

TERMINAL_STATES == {"DONE", "FAILED"}

\* status.get("status", "UNKNOWN")
StateOf(status) == DictGet(status[2], "status", Str("UNKNOWN"))[2]

\* the loop is left without a return: the f-string of the raise reads state
PollTimeout(p) ==
    [status |-> "raised", max_polls |-> p.max_polls, polls |-> p.polls,
     seen |-> p.seen, raised_by |-> "poll_status",
     error |-> IF p.seen = <<>> THEN "UnboundLocalError" ELSE "TimeoutError"]

\* poll_status(tx_hash, max_polls=max_polls) up to its first get_status call
PollStatus(max_polls) ==
    /\ poll.status # "polling"
    /\ LET p == [status |-> "polling", max_polls |-> max_polls, polls |-> 0,
                 seen |-> <<>>]
       IN  poll' = IF max_polls <= 0 THEN PollTimeout(p) ELSE p
    /\ UNCHANGED <<events, sqlite_sequence, table, db, txn, instance, entry, now,
                   pc, call, obs, returned, raised, inserts, tool, orphans>>

\* get_status returns status: the call returns it when its state is terminal;
\* otherwise it sleeps for the interval and goes on to the next poll, or to
\* the raise after the last one
PollGetStatus(status) ==
    /\ poll.status = "polling"
    /\ LET p == [poll EXCEPT !.polls = poll.polls + 1,
                             !.seen = Append(poll.seen, StateOf(status))]
       IN  poll' = IF StateOf(status) \in TERMINAL_STATES
                   THEN [status |-> "returned", max_polls |-> p.max_polls,
                         polls |-> p.polls, seen |-> p.seen, result |-> status]
                   ELSE IF p.polls >= p.max_polls THEN PollTimeout(p)
                   ELSE p
    /\ UNCHANGED <<events, sqlite_sequence, table, db, txn, instance, entry, now,
                   pc, call, obs, returned, raised, inserts, tool, orphans>>

\* get_status raises (LifiError on an HTTP error): the exception leaves
\* poll_status
PollGetStatusRaises ==
    /\ poll.status = "polling"
    /\ poll' = [status |-> "raised", max_polls |-> poll.max_polls,
                polls |-> poll.polls + 1, seen |-> poll.seen,
                raised_by |-> "get_status", error |-> "LifiError"]
    /\ UNCHANGED <<events, sqlite_sequence, table, db, txn, instance, entry, now,
                   pc, call, obs, returned, raised, inserts, tool, orphans>>

\* the answers of GET /status: a transfer that is done, failed, pending or
\* not found, and an answer without status
LifiStatuses ==
    {Obj(Doc("status", Str(state))) : state \in {"DONE", "FAILED", "PENDING", "NOT_FOUND"}}
        \cup {Obj(Doc("message", Str("rate limited")))}

PollLimits == (-1)..MaxPolls

\* what the exchange reports to a handler
Markets ==
    {[mark_price |-> 60000, index_price |-> 59990, funding_rate |-> f] :
        f \in {-10, 1}}

PositionLists ==
    {<<>>, <<[symbol |-> "BTC", size |-> -166667, unrealized_pnl |-> 1234567]>>}

\* the response of the exchange to an order: one entry in statuses
OrderResponse(status_entry) ==
    Obj(<< <<"status", Str("ok")>>,
           <<"response",
             Obj(<< <<"type", Str("order")>>,
                    <<"data", Obj(Doc("statuses", Arr(<<Obj(status_entry)>>)))>> >>)>> >>)

\* the order was filled
Filled == OrderResponse(Doc("filled", Obj(Doc("oid", Num(77)))))

\* every position's market_close is filled
AllFilled(positions) == [k \in 1..Len(positions) |-> Filled]

\* the exchange rejected the order: the status entry holds the error
Rejected == OrderResponse(Doc("error", Str("Insufficient margin to place order.")))

\* a rejection whose status entry also holds a null filled member
RejectedNullFilled ==
    OrderResponse(<< <<"filled", Null>>,
                     <<"error", Str("Order could not immediately match.")>> >>)

\* the client holds no private key: _require_exchange raises
NoPrivateKey == Raises("HYPERLIQUID_PRIVATE_KEY is required for trading operations.")

Responses == {Filled, Rejected, RejectedNullFilled, NoPrivateKey}

\* the open positions of the account: none, one in another coin, one short
\* in BTC, both
OrderPositionLists ==
    LET btc == [symbol |-> "BTC", size |-> -166667, unrealized_pnl |-> 1234567]
        eth == [symbol |-> "ETH", size |-> 2000000, unrealized_pnl |-> -50 * Usd]
    IN  {<<>>, <<eth>>, <<btc>>, <<eth, btc>>}

TargetEdges == {10}
MaxLeverage == 3

\* --------------------------------------------------------- specifications

\* the log under the server: concurrent callers, stop, crash and restart
Next ==
    \/ StartServer
    \/ Stop
    \/ Crash
    \/ \E c \in Callers, event \in CallerEvents :
          inserts < MaxAppends /\ FreeSlot(c) /\ AppendExecute(c, event)
    \/ \E c \in Callers : AppendCommit(c)
    \/ IterEvents(None, None)
    \/ GetLatestSnapshot
    \/ GetEventsSince(SecondsPerHour)
    \/ ComputePnlSummary(Window24h)

Spec == Init /\ [][Next]_vars

\* the same with the demo script as a second entry point
NextProgram ==
    \/ Next
    \/ StartDemo
    \/ DemoCleanup

SpecProgram == Init /\ [][NextProgram]_vars

\* one caller replaying arbitrary producer events through every read
NextReplay ==
    \/ StartServer
    \/ Tick
    \/ \E event \in ProducerEvents :
          inserts < MaxLog /\ AppendExecute(1, event)
    \/ AppendCommit(1)
    \/ \E limit \in ReadLimits, event_type \in ReadTypes :
          IterEvents(limit, event_type)
    \/ GetLatestSnapshot
    \/ \E since_ts \in ReadSince : GetEventsSince(since_ts)
    \/ \E window_hours \in ReadWindows : ComputePnlSummary(window_hours)

SpecReplay == Init /\ [][NextReplay]_vars

\* the lifespan of the server: startups that succeed or fail, the body and
\* its callers, the exit through the finally block
NextLifespan ==
    \/ StartServer
    \/ StartupFails
    \/ Stop
    \/ \E c \in Callers, event \in CallerEvents :
          inserts < MaxAppends /\ FreeSlot(c) /\ AppendExecute(c, event)
    \/ \E c \in Callers : AppendCommit(c)
    \/ IterEvents(None, None)

SpecLifespan == Init /\ [][NextLifespan]_vars

\* the log under the server on a storage whose commits can fail
NextFaults ==
    \/ StartServer
    \/ Stop
    \/ \E c \in Callers, event \in CallerEvents :
          inserts < MaxAppends /\ FreeSlot(c) /\ AppendExecute(c, event)
    \/ \E c \in Callers : AppendCommit(c)
    \/ \E c \in Callers : AppendCommitFails(c)
    \/ IterEvents(None, None)

SpecFaults == Init /\ [][NextFaults]_vars

\* the tool handlers of the server, called one after the other, on a storage
\* whose commits can fail
NextTools ==
    \/ StartServer
    \/ \E market \in Markets, is_long_basis \in BOOLEAN,
          target_edge_bps \in TargetEdges :
          /\ inserts < MaxLog
          /\ RunBasisStrategy(1, market, is_long_basis, target_edge_bps, MaxLeverage)
    \/ \E positions \in PositionLists :
          inserts < MaxLog /\ ClosePositions(1, "BTC", positions, AllFilled(positions))
    \/ inserts < MaxLog /\ GetPnlSnapshot(1)
    \/ GetPnlSnapshot7d(1)
    \/ \E positions \in PositionLists : GetPnlSnapshotAppend(1, positions)
    \/ ToolCommit(1)
    \/ ToolCommitFails(1)

SpecTools == Init /\ [][NextTools]_vars

\* the log under the server when open() is called again on the open log
NextOpen ==
    \/ StartServer
    \/ Stop
    \/ OpenAgain
    \/ \E c \in Callers, event \in CallerEvents :
          \/ inserts < MaxAppends /\ FreeSlot(c) /\ AppendExecute(c, event)
          \/ FreeSlot(c) /\ AppendLocked(c, event)
    \/ \E c \in Callers : AppendCommit(c)
    \/ IterEvents(None, None)

SpecOpen == Init /\ [][NextOpen]_vars

\* get_pnl_snapshot in one coroutine while close_positions runs in another,
\* on a healthy log and exchange
NextSnapshot ==
    \/ StartServer
    \/ inserts < MaxLog /\ GetPnlSnapshot(1)
    \/ GetPnlSnapshot7d(1)
    \/ \E positions \in PositionLists : GetPnlSnapshotAppend(1, positions)
    \/ \E positions \in PositionLists :
          inserts < MaxLog /\ ClosePositions(2, "BTC", positions, AllFilled(positions))
    \/ \E c \in Callers : ToolCommit(c)

SpecSnapshot == Init /\ [][NextSnapshot]_vars

\* poll_status calls, one after the other
NextPoll ==
    \/ \E max_polls \in PollLimits : PollStatus(max_polls)
    \/ \E status \in LifiStatuses : PollGetStatus(status)
    \/ PollGetStatusRaises

SpecPoll == Init /\ [][NextPoll]_vars

\* the handlers that trade, called one after the other on a healthy log, on
\* an exchange whose calls can fail and whose orders can be rejected
NextOrders ==
    \/ StartServer
    \/ \E market \in Markets, is_long_basis \in BOOLEAN,
          target_edge_bps \in TargetEdges :
          /\ inserts < MaxLog
          /\ RunBasisStrategy(1, market, is_long_basis, target_edge_bps, MaxLeverage)
    \/ \E is_long_basis \in BOOLEAN, target_edge_bps \in TargetEdges :
          RunBasisStrategyFetchFails(1, is_long_basis, target_edge_bps)
    \/ \E positions \in OrderPositionLists :
          \E responses \in [1..Len(Relevant(positions, "BTC")) -> Responses] :
              inserts < MaxLog /\ ClosePositions(1, "BTC", positions, responses)
    \/ ToolCommit(1)

SpecOrders == Init /\ [][NextOrders]_vars

\* one caller appending closes while the clock advances, and the analytics
NextSummary ==
    \/ StartServer
    \/ Tick
    \/ \E event \in SummaryEvents :
          inserts < MaxLog /\ AppendExecute(1, event)
    \/ AppendCommit(1)
    \/ \E window_hours \in ReadWindows : ComputePnlSummary(window_hours)

SpecSummary == Init /\ [][NextSummary]_vars

\* one caller appending events of any shape, and reading them back
NextInputs ==
    \/ StartServer
    \/ \E event \in InputEvents :
          \/ inserts < MaxLog /\ AppendExecute(1, event)
          \/ AppendKeyError(1, event)
    \/ AppendCommit(1)
    \/ IterEvents(None, None)
    \/ \E window_hours \in AnyWindows : ComputePnlSummary(window_hours)

SpecInputs == Init /\ [][NextInputs]_vars

\* ------------------------------------------------------------ properties

ReturnedSeqs == {r.seq : r \in returned}

\* the payload a call handed to append_event, as the document it denotes
AppendedPayload(r) == OptGet(r.event.payload, Obj(<<>>))

\* two returned calls whose executions overlapped: each was invoked before
\* the other returned
Overlapped(r1, r2) == r1 # r2 /\ r1.floor < r2.seq /\ r2.floor < r1.seq

\* C1: on the first log opened on an empty store, when every append_event
\* call issued so far has returned, the N returned sequence numbers are
\* exactly 1..N, each returned once.
C1_FreshSequencesAreOneToN ==
    (instance = 1 /\ Cardinality(returned) = inserts) =>
        /\ ReturnedSeqs = 1..inserts
        /\ Cardinality(ReturnedSeqs) = inserts

C1_Witness ==
    /\ instance = 1
    /\ inserts >= 2
    /\ Cardinality(returned) = inserts
    /\ \E r1, r2 \in returned : Overlapped(r1, r2)

\* C2: no two calls on one PerformanceLog return the same sequence number,
\* and once a call has returned N every sequence number below N is the
\* number of a committed row.
C2_UniqueAndLowerCommitted ==
    /\ \A r1, r2 \in returned :
          (r1.self = r2.self /\ r1.no # r2.no) => r1.seq # r2.seq
    /\ \A r \in returned : \A n \in 1..(r.seq - 1) :
          \E i \in 1..Len(events) : events[i].seq = n

\* a call has returned while a call with a lower sequence number is still
\* between its INSERT and its commit
C2_Witness ==
    \E r \in returned : \E c \in Callers :
        /\ pc[c] = "inserted"
        /\ call[c].self = r.self
        /\ call[c].lastrowid < r.seq

\* C3: a call invoked after another call has returned, on the same storage
\* location and also on a later PerformanceLog, returns a strictly greater
\* sequence number; no sequence number is returned twice.
C3_SequenceFollowsAppendOrder ==
    /\ \A r \in returned : r.seq > r.floor
    /\ \A r1, r2 \in returned : r1.no # r2.no => r1.seq # r2.seq

C3_Witness ==
    \E r1, r2 \in returned :
        /\ r1.self < r2.self
        /\ r2.floor >= r1.seq
        /\ r2.seq > r1.seq

\* C4: an event whose append_event returned sequence s is a row of the file
\* from then on, through close, crash and restart, and a log opened on the
\* file reads it back with the type, the timestamp and the payload appended.
C4_Durable ==
    \A r \in returned :
        /\ \E i \in 1..Len(events) : events[i].seq = r.seq
        /\ db = "open" =>
              \E i \in 1..Len(View) :
                  /\ RowToEvent(View[i]).seq = r.seq
                  /\ RowToEvent(View[i]).type = r.event.type
                  /\ RowToEvent(View[i]).ts = r.ts
                  /\ RowToEvent(View[i]).payload = AppendedPayload(r)

C4_Witness ==
    /\ db = "open"
    /\ \E r \in returned :
          /\ r.self < instance
          /\ r.event.ts = None
          /\ AppendedPayload(r) # Obj(<<>>)

\* C5: the log is append-only under every operation of the program, the
\* entry points included: an event whose append returned stays a row of the
\* file with its seq, ts, type and payload.
C5_AppendOnly ==
    \A r \in returned :
        \E i \in 1..Len(events) :
            /\ events[i].seq = r.seq
            /\ events[i].ts = r.ts
            /\ events[i].type = r.event.type
            /\ JsonLoads(events[i].payload) = AppendedPayload(r)

\* the sequence numbers of a list of events returned by a read
SeqsOf(evs) == {evs[i].seq : i \in 1..Len(evs)}

\* the rows of the log that a type filter selects (every row without one)
RowsOfType(event_type) ==
    {i \in 1..Len(View) : event_type = None \/ View[i].type = event_type[1]}

StrictlyDescending(evs) == \A i \in 1..(Len(evs) - 1) : evs[i].seq > evs[i + 1].seq
StrictlyAscending(evs) == \A i \in 1..(Len(evs) - 1) : evs[i].seq < evs[i + 1].seq

\* C6: iter_events(limit=k), k >= 0, returns exactly the min(k, n) events with
\* the largest sequence numbers among the n events of the log (of the given
\* type, with a type filter), in strictly descending sequence order.
C6_IterEventsNewestK ==
    (obs.op = "iter_events" /\ obs.limit # None) =>
        LET k        == obs.limit[1]
            matching == RowsOfType(obs.event_type)
        IN  /\ Len(obs.result) = Min(k, Cardinality(matching))
            /\ StrictlyDescending(obs.result)
            /\ SeqsOf(obs.result) \subseteq {View[i].seq : i \in matching}
            /\ \A i \in matching : View[i].seq \notin SeqsOf(obs.result) =>
                  \A s \in SeqsOf(obs.result) : View[i].seq < s

\* the rows of type pnl_snapshot
SnapshotRows == {i \in 1..Len(View) : View[i].type = EVENT_PNL_SNAPSHOT}

\* C7: get_latest_snapshot() returns None exactly when the log holds no
\* pnl_snapshot event, and otherwise the pnl_snapshot event with the greatest
\* sequence number, whatever events of other types were appended.
C7_LatestSnapshot ==
    obs.op = "get_latest_snapshot" =>
        /\ (obs.result = None) <=> (SnapshotRows = {})
        /\ \A r \in returned :
              r.event.type = EVENT_PNL_SNAPSHOT => obs.result # None
        /\ obs.result # None =>
              \E i \in SnapshotRows :
                  /\ \A j \in SnapshotRows : View[j].seq <= View[i].seq
                  /\ obs.result[1].seq = View[i].seq
                  /\ obs.result[1].type = EVENT_PNL_SNAPSHOT
                  /\ obs.result[1].ts = View[i].ts

\* a snapshot is returned although an event of another type was appended later
C7_Witness ==
    /\ obs.op = "get_latest_snapshot"
    /\ obs.result # None
    /\ obs.result[1].seq < MaxRowid(View)
    /\ Cardinality(SnapshotRows) >= 2

\* C8: get_events_since(t) returns exactly the events with timestamp >= t, in
\* ascending sequence order, also when timestamps do not grow with the
\* sequence numbers.
C8_EventsSince ==
    obs.op = "get_events_since" =>
        /\ SeqsOf(obs.result) =
              {View[i].seq : i \in {j \in 1..Len(View) : View[j].ts >= obs.since_ts}}
        /\ StrictlyAscending(obs.result)
        /\ \A k \in 1..Len(obs.result) : \E i \in 1..Len(View) :
              /\ View[i].seq = obs.result[k].seq
              /\ View[i].ts = obs.result[k].ts
              /\ View[i].type = obs.result[k].type

\* the result holds two events whose timestamps fall while their sequence
\* numbers rise, and leaves out an event older than t
C8_Witness ==
    /\ obs.op = "get_events_since"
    /\ \E k \in 1..(Len(obs.result) - 1) : obs.result[k].ts > obs.result[k + 1].ts
    /\ Len(obs.result) < Len(View)

\* C9: a read that starts after an append_event call has returned includes
\* the event of that call: iter_events and get_events_since list it (when
\* its timestamp passes the filter), get_latest_snapshot returns it or a
\* later snapshot, compute_pnl_summary counts it.
C9_ReadYourWrites ==
    \A r \in returned :
        /\ obs.op = "iter_events" => r.seq \in SeqsOf(obs.result)
        /\ (obs.op = "get_events_since" /\ r.ts >= obs.since_ts) =>
              r.seq \in SeqsOf(obs.result)
        /\ (obs.op = "get_latest_snapshot" /\ r.event.type = EVENT_PNL_SNAPSHOT) =>
              (obs.result # None /\ obs.result[1].seq >= r.seq)
        /\ obs.op = "compute_pnl_summary" =>
              obs.result.total_closed_trades >=
                  Cardinality({q \in returned : q.event.type = EVENT_TRADE_CLOSE})

\* a read on a restarted log lists an event appended before the restart,
\* while another append is in flight
C9_Witness ==
    /\ obs.op = "get_events_since"
    /\ \E r \in returned : r.self < instance /\ r.seq \in SeqsOf(obs.result)
    /\ \E c \in Callers : pc[c] = "inserted"

\* the trade_close rows and, for each, its realized_pnl as stored (0 if absent)
CloseRows == {i \in 1..Len(View) : View[i].type = EVENT_TRADE_CLOSE}

StoredPnl(i) ==
    LET members == View[i].payload.members
    IN  IF \E m \in 1..Len(members) : members[m].name = "realized_pnl"
        THEN members[CHOOSE m \in 1..Len(members) :
                         members[m].name = "realized_pnl"].value.literal
        ELSE 0

RECURSIVE SumOver(_)
SumOver(rows) ==
    IF rows = {} THEN 0
    ELSE LET i == CHOOSE j \in rows : TRUE
         IN  StoredPnl(i) + SumOver(rows \ {i})

\* the sum of the closes up to sequence number s
PrefixSum(s) == SumOver({i \in CloseRows : View[i].seq <= s})

MaxOf(S) == CHOOSE m \in S : \A x \in S : x <= m

\* the running peak after the close with sequence number s, starting at 0
PeakAt(s) == MaxOf({0} \cup {PrefixSum(View[i].seq) : i \in {j \in CloseRows : View[j].seq <= s}})

CumulativePnl == SumOver(CloseRows)

MaxDrawdown ==
    MaxOf({0} \cup {PeakAt(View[i].seq) - PrefixSum(View[i].seq) : i \in CloseRows})

NearestStep(x) ==
    CHOOSE y \in {(x \div AmountScale) * AmountScale,
                  (x \div AmountScale + 1) * AmountScale} :
        LET other == 2 * (x \div AmountScale) * AmountScale + AmountScale - y
            dy == IF y >= x THEN y - x ELSE x - y
            do == IF other >= x THEN other - x ELSE x - other
        IN  \/ dy < do
            \/ dy = do /\ (y \div AmountScale) % 2 = 0

WindowRows(window_hours) ==
    {i \in CloseRows : View[i].ts >= now - window_hours * SecondsPerHour}

MissingPnlRows ==
    {i \in CloseRows :
        \A m \in 1..Len(View[i].payload.members) :
            View[i].payload.members[m].name # "realized_pnl"}

\* the replay restricted to a set of rows: prefix sums, running peak from 0,
\* largest fall below the peak
PrefixSumOver(rows, s) == SumOver({i \in rows : View[i].seq <= s})

PeakOver(rows, s) ==
    MaxOf({0} \cup {PrefixSumOver(rows, View[i].seq) : i \in {j \in rows : View[j].seq <= s}})

MaxDrawdownOver(rows) ==
    MaxOf({0} \cup {PeakOver(rows, View[i].seq) - PrefixSumOver(rows, View[i].seq) : i \in rows})

\* C12: a trade_close without realized_pnl adds nothing to cumulative_pnl, to
\* realized_pnl_window and to the drawdown replay (each is what the other
\* closes alone give), and is counted in total_closed_trades.
C12_MissingPnlCountsAsZero ==
    obs.op = "compute_pnl_summary" =>
        LET present == CloseRows \ MissingPnlRows
        IN  /\ obs.result.cumulative_pnl_usd = NearestStep(SumOver(present))
            /\ obs.result.realized_pnl_window_usd =
                  NearestStep(SumOver(WindowRows(obs.window_hours) \ MissingPnlRows))
            /\ obs.result.max_drawdown_usd = NearestStep(MaxDrawdownOver(present))
            /\ obs.result.total_closed_trades =
                  Cardinality(present) + Cardinality(MissingPnlRows)

\* a close without realized_pnl lies inside the window, between a gain and a
\* loss that makes a drawdown
C12_Witness ==
    /\ obs.op = "compute_pnl_summary"
    /\ \E i \in MissingPnlRows \cap WindowRows(obs.window_hours) :
          /\ \E j \in CloseRows : View[j].seq < View[i].seq /\ StoredPnl(j) > 0
          /\ \E j \in CloseRows : View[j].seq > View[i].seq /\ StoredPnl(j) < 0
    /\ obs.result.max_drawdown_usd > 0
    /\ obs.result.total_closed_trades = 3

\* the trade_close rows whose realized_pnl is present and not a number
NonNumericPnlRows ==
    {i \in CloseRows :
        /\ View[i].payload.json = "object"
        /\ \E m \in 1..Len(View[i].payload.members) :
              /\ View[i].payload.members[m].name = "realized_pnl"
              /\ View[i].payload.members[m].value.json # "number"}

\* C13: on a log with a trade_close whose realized_pnl is a string, null or a
\* nested document, compute_pnl_summary does not raise; it returns a summary
\* that counts the event.
C13_NonNumericPnlCountsAsZero ==
    (NonNumericPnlRows # {} /\ obs.op = "raise") => obs.of # "compute_pnl_summary"

\* every reading the wall clock can show; the clock advances whatever the log
\* does, so a second call at any of the later readings follows a first call
\* with the log as the first call saw it
ClockValues == {Epoch + k * TickSeconds : k \in 0..MaxTicks}

C15_InvalidInputIsRejected ==
    [][/\ \A i \in 1..Len(View') : View'[i].payload.json = "object"
       /\ (obs'.op = "raise" /\ obs'.of = "append_event") =>
             /\ View' = View
             /\ sqlite_sequence' = sqlite_sequence
             /\ inserts' = inserts]_vars

EnumeratedTypes ==
    {EVENT_TRADE_OPEN, EVENT_TRADE_CLOSE, EVENT_PNL_SNAPSHOT,
     EVENT_STRATEGY_DECISION, EVENT_ERROR}

\* the calls that returned and whose event has a type outside the five, or
\* is a trade_close with a document payload without realized_pnl
UnknownTypeCalls == {r \in returned : r.event.type \notin EnumeratedTypes}

ClosesWithoutPnl ==
    {r \in returned :
        /\ r.event.type = EVENT_TRADE_CLOSE
        /\ AppendedPayload(r)[1] = "object"
        /\ \A m \in 1..Len(AppendedPayload(r)[2]) :
              AppendedPayload(r)[2][m][1] # "realized_pnl"}

\* C16: append_event raises on no event that has a type, whatever the type
\* and the payload fields; an event with a type outside the five, or a
\* trade_close without realized_pnl, returns a sequence number, is a row of
\* the log, and iter_events returns it with the type and the payload appended.
C16_UnknownTypeIsAppended ==
    /\ raised = {}
    /\ (obs.op = "raise" /\ obs.of = "append_event") => obs.error = "KeyError"
    /\ \A r \in UnknownTypeCalls \cup ClosesWithoutPnl :
          /\ r.seq >= 1
          /\ \E i \in 1..Len(events) : events[i].seq = r.seq
          /\ obs.op = "iter_events" =>
                \E k \in 1..Len(obs.result) :
                    /\ obs.result[k].seq = r.seq
                    /\ obs.result[k].type = r.event.type
                    /\ obs.result[k].payload = AppendedPayload(r)

\* a read returns an event of a type outside the five and a trade_close
\* without realized_pnl
C16_Witness ==
    /\ obs.op = "iter_events"
    /\ \E r \in UnknownTypeCalls : \E k \in 1..Len(obs.result) :
          obs.result[k].seq = r.seq /\ obs.result[k].payload # Obj(<<>>)
    /\ \E r \in ClosesWithoutPnl : \E k \in 1..Len(obs.result) :
          obs.result[k].seq = r.seq

\* C17: whenever no lifespan is running, each one that ran has released the
\* connection its open() acquired: close() was called on the way out, also
\* when a client constructor raised during startup and when the body raised.
C17_HandleReleasedOnExit == entry = "none" => db = "none"

\* C18: a call that returned has its row in the log, and the row of a call
\* that raised is not in the log, neither when the call raises nor later.
C18_AppendIsAtomic ==
    /\ \A r \in returned : \E i \in 1..Len(events) : events[i].no = r.no
    /\ \A x \in raised : \A i \in 1..Len(events) : events[i].no # x.no

\* the numbers of the append_event calls a handler has made
AppendsOf(c) ==
    IF tool[c].status = "none" THEN {}
    ELSE {tool[c].appends[k] : k \in 1..Len(tool[c].appends)}

NoEdgeCalls ==
    {c \in Callers :
        /\ tool[c].name = "run_basis_strategy"
        /\ "market" \in DOMAIN tool[c].args
        /\ LET hundredths == tool[c].args.market.funding_rate * 3 * 365
               target     == tool[c].args.target_edge_bps * 100
           IN  IF tool[c].args.is_long_basis
               THEN hundredths < target ELSE hundredths > -target}

\* C20: a run_basis_strategy call whose edge does not meet the target calls
\* place_order never and append_event once, with a strategy_decision event
\* whose payload holds the market inputs, the action "no_trade" and a reason;
\* when it has returned, that event is the one event it added to the log.
C20_NoTradeRecordsOneDecision ==
    \A c \in NoEdgeCalls :
        /\ tool[c].place_order_calls = 0
        /\ Cardinality(AppendsOf(c)) = 1
        /\ \A i \in 1..Len(View) :
              View[i].no \in AppendsOf(c) =>
                  LET payload == RowToEvent(View[i]).payload
                      market  == tool[c].args.market
                  IN  /\ View[i].type = EVENT_STRATEGY_DECISION
                      /\ payload[1] = "object"
                      /\ DictGet(payload[2], "mark_price", Null) = Num(market.mark_price)
                      /\ DictGet(payload[2], "index_price", Null) = Num(market.index_price)
                      /\ DictGet(payload[2], "funding_8h", Null) = Num(market.funding_rate)
                      /\ DictGet(payload[2], "target_edge_bps", Null) =
                            Num(tool[c].args.target_edge_bps)
                      /\ DictGet(payload[2], "action", Null) = Str("no_trade")
                      /\ DictGet(payload[2], "reason", Null)[1] = "string"
        /\ tool[c].status = "returned" =>
              /\ Cardinality({i \in 1..Len(events) : events[i].no \in AppendsOf(c)}) = 1
              /\ DictGet(tool[c].result[1], "action", Null) = Str("no_trade")

\* a short-basis call without the edge has returned, on a log that held
\* events of other handlers before
C20_Witness ==
    \E c \in NoEdgeCalls :
        /\ tool[c].status = "returned"
        /\ ~tool[c].args.is_long_basis
        /\ Len(events) >= 3
        /\ \E i \in 1..Len(events) : events[i].type = EVENT_ERROR
        /\ \E i \in 1..Len(events) : events[i].no \in AppendsOf(c)

\* the run_basis_strategy calls that fetched the market data and whose
\* annualised funding meets the target
EdgeCalls ==
    {c \in Callers :
        /\ tool[c].name = "run_basis_strategy"
        /\ "market" \in DOMAIN tool[c].args
        /\ LET hundredths == tool[c].args.market.funding_rate * 3 * 365
               target     == tool[c].args.target_edge_bps * 100
           IN  IF tool[c].args.is_long_basis
               THEN hundredths >= target ELSE hundredths <= -target}

\* the committed events a handler's append_event calls have added, as
\* iter_events returns them
EventsOf(c) ==
    MapRows(SelectSeq(events, LAMBDA r : r.no \in AppendsOf(c)))

HasAction(ev, action) ==
    /\ ev.payload[1] = "object"
    /\ DictGet(ev.payload[2], "action", Null) = Str(action)

\* C21: a run_basis_strategy call whose edge meets the target, on an exchange
\* that accepts the order, has recorded when it returns a strategy_decision
\* event with action "order_placed" and the order's identifier, and a
\* trade_open event.
C21_OrderPlacedIsRecorded ==
    \A c \in EdgeCalls :
        tool[c].status = "returned" =>
            /\ \E i \in 1..Len(EventsOf(c)) :
                  /\ EventsOf(c)[i].type = EVENT_STRATEGY_DECISION
                  /\ HasAction(EventsOf(c)[i], "order_placed")
                  /\ DictGet(EventsOf(c)[i].payload[2], "order_id", Null) # Null
            /\ \E i \in 1..Len(EventsOf(c)) : EventsOf(c)[i].type = EVENT_TRADE_OPEN

\* the handler calls that have ended and in which a step of the decision
\* execution on the exchange raised
FailedCalls ==
    {c \in Callers :
        /\ tool[c].status \in {"returned", "raised"}
        /\ tool[c].exchange.failure # None}

\* C22: on a healthy log, a run_basis_strategy or close_positions call in
\* which the market-data fetch, the order placement or a close order raised
\* has appended an error event that holds the failure's description.
C22_EveryFailureRecordsError ==
    \A c \in FailedCalls :
        \E i \in 1..Len(EventsOf(c)) :
            /\ EventsOf(c)[i].type = EVENT_ERROR
            /\ HasAction(EventsOf(c)[i], "error")
            /\ DictGet(EventsOf(c)[i].payload[2], "error", Null) =
                  Str(tool[c].exchange.failure[1])

\* the rows, committed or not, that a handler's append_event calls inserted
RowsOf(c) == SelectSeq(View, LAMBDA r : r.no \in AppendsOf(c))

PositionsFound(c) ==
    SelectSeq(tool[c].args.positions, LAMBDA p : p.symbol = tool[c].args.symbol)

\* C24: a close_positions call that finds no position of the symbol sends no
\* close order, appends nothing and returns "no_positions"; any other call
\* makes at most one append_event call, of a trade_close whose realized_pnl
\* is a number, and when it has returned it has sent a close order for each
\* position found and added exactly that one event to the log.
C24_OneTradeClosePerClose ==
    \A c \in Callers :
        tool[c].name = "close_positions" =>
            /\ PositionsFound(c) = <<>> =>
                  /\ AppendsOf(c) = {}
                  /\ tool[c].exchange.close_orders = 0
                  /\ tool[c].status = "returned"
                  /\ DictGet(tool[c].result[1], "action", Null) = Str("no_positions")
            /\ Cardinality(AppendsOf(c)) <= 1
            /\ \A i \in 1..Len(RowsOf(c)) :
                  /\ RowsOf(c)[i].type = EVENT_TRADE_CLOSE
                  /\ HasAction(RowToEvent(RowsOf(c)[i]), "error") = FALSE
                  /\ DictGet(RowToEvent(RowsOf(c)[i]).payload[2],
                             "realized_pnl", Null)[1] = "number"
            /\ (tool[c].status = "returned" /\ PositionsFound(c) # <<>>) =>
                  /\ tool[c].exchange.close_orders = Len(PositionsFound(c))
                  /\ Len(EventsOf(c)) = 1
                  /\ EventsOf(c)[1].type = EVENT_TRADE_CLOSE

\* a call has closed the BTC position of an account that also holds one in
\* ETH, on a log that held events before
C24_Witness ==
    \E c \in Callers :
        /\ tool[c].name = "close_positions"
        /\ tool[c].status = "returned"
        /\ Len(tool[c].args.positions) = 2
        /\ Len(EventsOf(c)) = 1
        /\ DictGet(EventsOf(c)[1].payload[2], "realized_pnl", Null) = Num(1234570)
        /\ Len(events) >= 2

\* the order results of a call in which the exchange did not accept the
\* order: the parsed status is "error"
RejectedResults(c) ==
    {k \in 1..Len(tool[c].exchange.results) :
        tool[c].exchange.results[k].status = "error"}

\* C29: no trade_close row belongs to a close_positions call one of whose
\* order results has status "error", and no trade_open row to a
\* run_basis_strategy call whose order result has status "error".
C29_RecordedOnlyWhenAccepted ==
    \A c \in Callers :
        (tool[c].status # "none" /\ RejectedResults(c) # {}) =>
            \A i \in 1..Len(RowsOf(c)) :
                RowsOf(c)[i].type \notin {EVENT_TRADE_OPEN, EVENT_TRADE_CLOSE}

\* C25: no connection is left open by open() other than the one self._db
\* holds, and every event whose append_event call returned is in the log,
\* also when open() is called again without a close() in between.
C25_OpenIsIdempotent ==
    /\ orphans = <<>>
    /\ \A r \in returned : \E i \in 1..Len(events) : events[i].no = r.no

\* the step is a compute_pnl_summary call that returned or raised
IsSummaryStep ==
    /\ obs' # NoRead
    /\ \/ obs'.op = "compute_pnl_summary"
       \/ obs'.op = "raise" /\ obs'.of = "compute_pnl_summary"

\* C26: a compute_pnl_summary call, for any window_hours and whether it
\* returns or raises, changes neither the rows of the log, committed or
\* pending, nor the table, nor the sequence counter.
C26_AnalyticsIsReadOnly ==
    [][IsSummaryStep =>
          UNCHANGED <<events, txn, sqlite_sequence, table, db, orphans,
                      inserts, returned, raised>>]_vars

\* a summary has raised on a log that holds two committed events and a
\* pending row
C26_Witness ==
    /\ obs.op = "raise"
    /\ obs.of = "compute_pnl_summary"
    /\ Len(events) >= 2
    /\ txn # <<>>

\* C27: a poll_status call makes at most max_polls get_status calls; when it
\* returns, it returns the first status whose state is DONE or FAILED; when
\* the polls are used up without one, it raises TimeoutError.
C27_PollStatusEndsAsDocumented ==
    poll.status # "none" =>
        /\ poll.polls <= Max(poll.max_polls, 0)
        /\ poll.status = "returned" =>
              /\ StateOf(poll.result) \in {"DONE", "FAILED"}
              /\ \A k \in 1..(Len(poll.seen) - 1) : poll.seen[k] \notin {"DONE", "FAILED"}
        /\ (poll.status = "raised" /\ poll.raised_by = "poll_status") =>
              /\ poll.error = "TimeoutError"
              /\ poll.polls = Max(poll.max_polls, 0)

\* the sequence numbers of the committed rows
CommittedSeqs == {events[i].seq : i \in 1..Len(events)}

\* C28: a read returns and counts committed events only: every event that
\* iter_events, get_events_since or get_latest_snapshot returns is a
\* committed row, and compute_pnl_summary counts the committed trade_close
\* rows, also while an append_event call is between its INSERT and its commit.
C28_ReadsAreCommitted ==
    /\ obs.op \in {"iter_events", "get_events_since"} =>
          \A i \in 1..Len(obs.result) : obs.result[i].seq \in CommittedSeqs
    /\ obs.op = "get_latest_snapshot" =>
          \A i \in 1..Len(obs.result) : obs.result[i].seq \in CommittedSeqs
    /\ obs.op = "compute_pnl_summary" =>
          obs.result.total_closed_trades =
              Len(WhereType(events, EVENT_TRADE_CLOSE))

\* the result dict of a get_pnl_snapshot call, as far as it is built
SnapshotResult(c) ==
    IF tool[c].status = "returned" THEN tool[c].result[1]
    ELSE IF tool[c].status = "running" THEN tool[c].locals
    ELSE <<>>

SummaryField(doc, summary, field) ==
    DictGet(DictGet(doc, summary, Obj(<<>>))[2], field, Null)

\* C30: when the result of a get_pnl_snapshot call holds pnl_24h and pnl_7d,
\* the two report the same cumulative_pnl_usd, max_drawdown_usd and
\* total_closed_trades.
C30_SummariesOfOneSnapshotAgree ==
    \A c \in Callers :
        (/\ tool[c].name = "get_pnl_snapshot"
         /\ DictGet(SnapshotResult(c), "pnl_24h", Null) # Null
         /\ DictGet(SnapshotResult(c), "pnl_7d", Null) # Null) =>
            \A field \in {"cumulative_pnl_usd", "max_drawdown_usd", "total_closed_trades"} :
                SummaryField(SnapshotResult(c), "pnl_24h", field) =
                    SummaryField(SnapshotResult(c), "pnl_7d", field)

====
